---- MODULE Spec2Model ----
(***************************************************************************)
(* A model of src/src/evaluate.py: the scoring core that compares an       *)
(* extracted ESG record (predicted) with a reference record (expected).    *)
(*                                                                         *)
(* Values.  A JSON value is a record [t, v]: t is the Python type and v    *)
(* the payload.                                                            *)
(*   null   [t |-> "null",  v |-> 0]                                       *)
(*   bool   [t |-> "bool",  v |-> TRUE or FALSE]                           *)
(*   int    [t |-> "int",   v |-> n]      the Python int n                 *)
(*   float  [t |-> "float", v |-> q]      the Python float q / Unit        *)
(*   str    [t |-> "str",   v |-> s]      s a sequence of atoms            *)
(*   dict   [t |-> "dict",  v |-> items]  a sequence of <<key, value>>,    *)
(*                                        keys distinct, in insertion order*)
(*   list   [t |-> "list",  v |-> items]  a sequence of values             *)
(* A string is a sequence of atoms.  An atom is one character, or, in a    *)
(* field name, a maximal run of identifier characters ("policies"): the    *)
(* characters '.', '[', ']' and the digits are always atoms of their own,  *)
(* so two strings are equal exactly when their atom sequences are.         *)
(* Floats are the multiples of 1/Unit with Unit a power of two: on these   *)
(* values the double arithmetic of compare_values is exact (differences    *)
(* are exact, and no tolerance is within rounding of a representable       *)
(* difference unless it equals it), so exact arithmetic models it.         *)
(* Scores are rationals [n, d], d > 0, compared by cross-multiplication.   *)
(***************************************************************************)
EXTENDS Integers, Sequences, FiniteSets, TLC

VARIABLES pc, predicted, expected, field_name, ret, result

vars == <<pc, predicted, expected, field_name, ret, result>>

(* ------------------------------ bounds -------------------------------- *)

\* Python ints of the scalar universe are -MaxInt .. MaxInt.
MaxInt == 21

\* Floats of the scalar universe have a fractional part of at most MaxFrac/Unit.
MaxFrac == 7

\* String values have at most MaxStrLen characters.
MaxStrLen == 2

(* --------------------------- representation --------------------------- *)

\* Denominator of the float representation (a power of two).
Unit == 2^7

Null == [t |-> "null", v |-> 0]

PyBool(b) == [t |-> "bool", v |-> b]

PyInt(n) == [t |-> "int", v |-> n]

PyFloat(q) == [t |-> "float", v |-> q]

PyStr(s) == [t |-> "str", v |-> s]

PyDict(items) == [t |-> "dict", v |-> items]

PyList(items) == [t |-> "list", v |-> items]

\* Mutant of IsNone: `not x` in place of `x is None`, which also takes False,
\* zero and the empty string and list for a missing value.
IsNone_Falsy(x) ==
  \/ x.t = "null"
  \/ x.t = "bool" /\ ~x.v
  \/ x.t \in {"int", "float"} /\ x.v = 0
  \/ x.t \in {"str", "list", "dict"} /\ x.v = <<>>

\* `x is None`
IsNone(x) == x.t = "null"

\* isinstance(x, bool)
IsBool(x) == x.t = "bool"

\* isinstance(x, (int, float)): bool is a subclass of int, so a bool passes.
IsIntOrFloat(x) == x.t \in {"bool", "int", "float"}

\* isinstance(x, str)
IsStr(x) == x.t = "str"

\* isinstance(x, dict)
IsDict(x) == x.t = "dict"

\* isinstance(x, list)
IsList(x) == x.t = "list"

\* The numeric value of a bool, int or float, in 1/Unit: True is 1, False is 0.
NumOf(x) ==
  CASE x.t = "bool" -> (IF x.v THEN Unit ELSE 0)
    [] x.t = "int" -> x.v * Unit
    [] x.t = "float" -> x.v

Abs(n) == IF n < 0 THEN -n ELSE n

Max(a, b) == IF a >= b THEN a ELSE b

(* ------------------------------ rationals ----------------------------- *)

Rat(n, d) == [n |-> n, d |-> d]

RatAdd(a, b) == Rat(a.n * b.d + b.n * a.d, a.d * b.d)

RatEq(a, b) == a.n * b.d = b.n * a.d

RatLeq(a, b) == a.n * b.d <= b.n * a.d

RatMin(a, b) == IF RatLeq(a, b) THEN a ELSE b

(* --------------------------- program constants ------------------------ *)

\* tolerance = abs(expected) * 0.05: five hundredths of |expected|.
TolerancePercent == 5

\* tolerance = 0.01 when expected == 0: one hundredth.
ZeroToleranceHundredths == 1

\* ratio >= 0.9: ninety hundredths.
StringThresholdPercent == 90

\* parsing_score = (correct_fields / total_expected_fields) * 60
ParsingWeight == 60

\* coverage_ratio * 20.0
CoverageWeight == 20

\* 10 if schema_valid else 0
HygieneWeight == 10

\* min(synonym_bonus, 10)
RobustnessCap == 10

\* synonym_bonus += 2.5: five halves.
BonusHalves == 5

(* ------------------------------- strings ------------------------------ *)

\* str.lower() of one character.
LowerChar(c) ==
  CASE c = "A" -> "a"
    [] c = "B" -> "b"
    [] OTHER -> c

\* str.lower()
Lower(s) == [i \in 1..Len(s) |-> LowerChar(s[i])]

\* Length of the longest common subsequence of s[1..i] and u[1..j].
RECURSIVE LCS(_, _, _, _)
LCS(s, u, i, j) ==
  IF i = 0 \/ j = 0 THEN 0
  ELSE IF s[i] = u[j] THEN 1 + LCS(s, u, i - 1, j - 1)
  ELSE Max(LCS(s, u, i - 1, j), LCS(s, u, i, j - 1))

\* rapidfuzz.fuzz.ratio(s, u) / 100.0: the normalised Indel similarity,
\* 2 * lcs / (len(s) + len(u)), and 1 for two empty strings.
FuzzRatio(s, u) ==
  IF Len(s) + Len(u) = 0 THEN Rat(1, 1)
  ELSE Rat(2 * LCS(s, u, Len(s), Len(u)), Len(s) + Len(u))

\* str(x) for the f-strings of the error messages, as atoms; ShowItems is
\* the ", ".join of the items of a list.
RECURSIVE Show(_), ShowItems(_)
ShowItems(items) ==
  IF items = <<>> THEN <<>>
  ELSE IF Len(items) = 1 THEN Show(items[1])
  ELSE Show(items[1]) \o <<", ">> \o ShowItems(Tail(items))

Show(x) ==
  CASE x.t = "null" -> <<"None">>
    [] x.t = "bool" -> (IF x.v THEN <<"True">> ELSE <<"False">>)
    [] x.t = "int" -> <<ToString(x.v)>>
    [] x.t = "float" -> <<ToString(x.v), "/", ToString(Unit)>>
    [] x.t = "str" -> x.v
    [] x.t = "list" -> <<"[">> \o ShowItems(x.v) \o <<"]">>
    [] OTHER -> <<"{", ToString(Len(x.v)), "}">>

\* str(type(x))
TypeName(x) == <<"<class '", (IF x.t = "null" THEN "NoneType" ELSE x.t), "'>">>

(* --------------------------- compare_values --------------------------- *)

\* Python's a == b on JSON values: numbers (bools included) compare by value,
\* strings and lists element by element, dicts by key, and values of
\* different kinds are unequal.
RECURSIVE PyEq(_, _)
PyEq(a, b) ==
  CASE IsIntOrFloat(a) /\ IsIntOrFloat(b) -> NumOf(a) = NumOf(b)
    [] IsNone(a) /\ IsNone(b) -> TRUE
    [] IsStr(a) /\ IsStr(b) -> a.v = b.v
    [] IsList(a) /\ IsList(b) ->
         /\ Len(a.v) = Len(b.v)
         /\ \A i \in 1..Len(a.v) : PyEq(a.v[i], b.v[i])
    [] IsDict(a) /\ IsDict(b) ->
         /\ Len(a.v) = Len(b.v)
         /\ \A i \in 1..Len(a.v) : \E j \in 1..Len(b.v) :
              a.v[i][1] = b.v[j][1] /\ PyEq(a.v[i][2], b.v[j][2])
    [] OTHER -> FALSE

\* The tuple compare_values returns.
Verdict(is_correct, similarity, error) ==
  [is_correct |-> is_correct, similarity |-> similarity, error |-> error]

\* Mutant of WithinTolerance: diff < tolerance, which rejects a value that
\* sits exactly on the tolerance.
WithinTolerance_Strict(e, p) ==
  IF e # 0
    THEN 100 * Abs(e - p) < TolerancePercent * Abs(e)
    ELSE 100 * Abs(e - p) < ZeroToleranceHundredths * Unit

\* diff <= tolerance, with tolerance = abs(expected) * 0.05 if expected != 0
\* else 0.01, and diff = abs(expected - predicted); e and p are in 1/Unit.
WithinTolerance(e, p) ==
  IF e # 0
    THEN 100 * Abs(e - p) <= TolerancePercent * Abs(e)
    ELSE 100 * Abs(e - p) <= ZeroToleranceHundredths * Unit

\* The numeric branch of compare_values.
NumericVerdict(pred, exp) ==
  IF WithinTolerance(NumOf(exp), NumOf(pred))
    THEN Verdict(TRUE, Rat(1, 1), <<>>)
    ELSE Verdict(FALSE, Rat(0, 1),
                 <<"Numeric mismatch: expected ">> \o Show(exp) \o <<", got ">> \o Show(pred))

\* The string branch of compare_values.
StringVerdict(pred, exp) ==
  LET ratio == FuzzRatio(Lower(exp.v), Lower(pred.v)) IN
  IF RatLeq(Rat(StringThresholdPercent, 100), ratio)
    THEN Verdict(TRUE, ratio, <<>>)
    ELSE Verdict(FALSE, ratio,
                 <<"String mismatch: expected '">> \o exp.v \o <<"', got '">> \o pred.v \o <<"'">>)

\* compare_values(predicted, expected, field_name)
compare_values(pred, exp, fname) ==
  IF IsNone(exp) /\ IsNone(pred) THEN Verdict(TRUE, Rat(1, 1), <<>>)
  ELSE IF IsNone(exp) THEN Verdict(TRUE, Rat(1, 1), <<>>)
  ELSE IF IsNone(pred)
    THEN Verdict(FALSE, Rat(0, 1), <<"Missing required field: ">> \o fname)
  ELSE IF IsBool(exp) /\ IsBool(pred)
    THEN IF exp.v = pred.v
           THEN Verdict(TRUE, Rat(1, 1), <<>>)
           ELSE Verdict(FALSE, Rat(0, 1),
                        <<"Boolean mismatch: expected ">> \o Show(exp) \o <<", got ">> \o Show(pred))
  ELSE IF IsIntOrFloat(exp) /\ IsIntOrFloat(pred) THEN NumericVerdict(pred, exp)
  ELSE IF IsStr(exp) /\ IsStr(pred) THEN StringVerdict(pred, exp)
  ELSE IF PyEq(exp, pred) THEN Verdict(TRUE, Rat(1, 1), <<>>)
  ELSE Verdict(FALSE, Rat(0, 1),
               <<"Type/value mismatch: expected ">> \o Show(exp) \o <<" (">> \o TypeName(exp)
                 \o <<"), got ">> \o Show(pred) \o <<" (">> \o TypeName(pred) \o <<")">>)

(* ------------------------------ flatten_dict -------------------------- *)

\* The flat mapping flatten_dict builds is a Python dict: a sequence of
\* <<path, value>> pairs with distinct paths, in insertion order.

\* `k in m`
DictHas(m, k) == \E i \in 1..Len(m) : m[i][1] = k

\* m.get(k): the value at k, None when k is not a key.
DictGet(m, k) ==
  IF DictHas(m, k) THEN m[CHOOSE i \in 1..Len(m) : m[i][1] = k][2] ELSE Null

\* m[k] = v: an existing key keeps its place and takes the new value, a new
\* key is appended.
DictSet(m, k, v) ==
  IF DictHas(m, k)
    THEN [i \in 1..Len(m) |-> IF m[i][1] = k THEN <<k, v>> ELSE m[i]]
    ELSE Append(m, <<k, v>>)

\* m.update(other)
RECURSIVE DictUpdate(_, _)
DictUpdate(m, other) ==
  IF other = <<>> THEN m
  ELSE DictUpdate(DictSet(m, other[1][1], other[1][2]), Tail(other))

\* str(i) of an index, as digit atoms.
RECURSIVE Digits(_)
Digits(i) == IF i < 10 THEN <<ToString(i)>> ELSE Digits(i \div 10) \o <<ToString(i % 10)>>

\* f"{new_key}[{i}]"
IndexedKey(new_key, i) == new_key \o <<"[">> \o Digits(i) \o <<"]">>

\* Mutant of NewKey: the prefix is dropped, so that fields of different
\* objects share their path.
NewKey_NoPrefix(prefix, key) == key

\* f"{prefix}.{key}" if prefix else key
NewKey(prefix, key) == IF prefix # <<>> THEN prefix \o <<".">> \o key ELSE key

\* flatten_dict(d, prefix), with its two loops: FlattenFields is the loop over
\* d.items() and FlattenList the loop over enumerate(value); result is the
\* dict built so far.
RECURSIVE flatten_dict(_, _), FlattenFields(_, _, _), FlattenList(_, _, _, _)
FlattenList(items, new_key, i, result_) ==
  IF i >= Len(items) THEN result_
  ELSE LET item == items[i + 1] IN
       FlattenList(items, new_key, i + 1,
                   IF IsDict(item)
                     THEN DictUpdate(result_, flatten_dict(item, IndexedKey(new_key, i)))
                     ELSE DictSet(result_, IndexedKey(new_key, i), item))

FlattenFields(items, prefix, result_) ==
  IF items = <<>> THEN result_
  ELSE LET key == items[1][1]
           value == items[1][2]
           new_key == NewKey(prefix, key)
       IN FlattenFields(Tail(items), prefix,
                        IF IsDict(value) THEN DictUpdate(result_, flatten_dict(value, new_key))
                        ELSE IF IsList(value) THEN FlattenList(value.v, new_key, 0, result_)
                        ELSE DictSet(result_, new_key, value))

flatten_dict(d, prefix) == FlattenFields(d.v, prefix, <<>>)

(* --------------------------- validate_schema -------------------------- *)

\* Validation is that of pydantic 2 in its default (lax) mode: a field of a
\* model that is absent takes its default, keys the model does not declare
\* are ignored, and a scalar of another type is accepted where pydantic
\* converts it without loss.

\* A string of decimal digits (what pydantic converts to a number).
IsDigitString(s) ==
  s # <<>> /\ \A i \in 1..Len(s) : s[i] \in {"0", "1", "2", "3", "4", "5", "6", "7", "8", "9"}

\* The strings pydantic converts to a bool, lower-cased.
BoolStrings ==
  {<<"0">>, <<"1">>, <<"t">>, <<"f">>, <<"y">>, <<"n">>, <<"o", "n">>, <<"n", "o">>,
   <<"o", "f", "f">>, <<"y", "e", "s">>, <<"t", "r", "u", "e">>, <<"f", "a", "l", "s", "e">>}

\* str
ValidStr(x) == IsStr(x)

\* int: an int, a bool, a float without fractional part, a digit string.
ValidInt(x) ==
  \/ x.t \in {"int", "bool"}
  \/ x.t = "float" /\ x.v % Unit = 0
  \/ IsStr(x) /\ IsDigitString(x.v)

\* float: a number, a bool, a digit string.
ValidFloat(x) == IsIntOrFloat(x) \/ (IsStr(x) /\ IsDigitString(x.v))

\* bool: a bool, the numbers 0 and 1, the strings pydantic reads as a bool.
ValidBool(x) ==
  \/ IsBool(x)
  \/ x.t \in {"int", "float"} /\ NumOf(x) \in {0, Unit}
  \/ IsStr(x) /\ Lower(x.v) \in BoolStrings

\* dict
ValidDict(x) == IsDict(x)

\* The value of field name of the object x, None when the field is absent.
Field(x, name) == DictGet(x.v, <<name>>)

\* class BoardMember(BaseModel): name and role are required.
ValidBoardMember(x) ==
  /\ IsDict(x)
  /\ DictHas(x.v, <<"name">>) /\ ValidStr(Field(x, "name"))
  /\ DictHas(x.v, <<"role">>) /\ ValidStr(Field(x, "role"))
  /\ LET independence == Field(x, "independence") IN
     \/ IsNone(independence)
     \/ /\ IsStr(independence)
        /\ independence.v \in {<<"Independent">>, <<"Executive">>, <<"Non", "-", "Independent">>}

\* class BoardInfo(BaseModel): members defaults to [] and is not Optional.
ValidBoardInfo(x) ==
  /\ IsDict(x)
  /\ IsNone(Field(x, "chair")) \/ ValidBoardMember(Field(x, "chair"))
  /\ DictHas(x.v, <<"members">>) =>
       /\ IsList(Field(x, "members"))
       /\ \A i \in 1..Len(Field(x, "members").v) : ValidBoardMember(Field(x, "members").v[i])
  /\ LET counts == Field(x, "counts") IN
     \/ IsNone(counts)
     \/ IsDict(counts) /\ \A i \in 1..Len(counts.v) : ValidInt(counts.v[i][2])

\* class GHG(BaseModel)
ValidGHG(x) ==
  /\ IsDict(x)
  /\ IsNone(Field(x, "base_year")) \/ ValidInt(Field(x, "base_year"))
  /\ \A name \in {"scope1_tco2e", "scope2_market_tco2e", "scope2_location_tco2e",
                  "scope3_tco2e", "total_tco2e", "intensity_tco2e_per_eur_m"} :
       IsNone(Field(x, name)) \/ ValidFloat(Field(x, name))

\* class Policies(BaseModel)
ValidPolicies(x) ==
  /\ IsDict(x)
  /\ \A name \in {"anti_corruption", "whistleblowing", "human_rights", "climate_policy",
                  "dei_policy"} :
       IsNone(Field(x, name)) \/ ValidBool(Field(x, name))
  /\ IsNone(Field(x, "assurance")) \/ ValidStr(Field(x, "assurance"))

\* class DocESG(BaseModel): whether field name of the record is valid.
ValidDocESGField(x, name) ==
  LET value == Field(x, name) IN
  \/ IsNone(value)
  \/ CASE name = "company" -> ValidStr(value)
       [] name = "year" -> ValidInt(value)
       [] name = "board" -> ValidBoardInfo(value)
       [] name = "ghg" -> ValidGHG(value)
       [] name = "policies" -> ValidPolicies(value)
       [] name = "governance" -> ValidDict(value)

\* The fields of DocESG, in the order of their declaration.
DocESGFields == <<"company", "year", "board", "ghg", "policies", "governance">>

\* The fields of the record that fail validation, in the order of DocESG.
RECURSIVE InvalidFields(_, _)
InvalidFields(x, names) ==
  IF names = <<>> THEN <<>>
  ELSE (IF ValidDocESGField(x, Head(names)) THEN <<>> ELSE <<Head(names)>>)
         \o InvalidFields(x, Tail(names))

\* validate_schema(predicted): DocESG(**predicted) either succeeds or raises
\* a ValidationError, whose text names the fields that failed.
validate_schema(pred) ==
  LET invalid == InvalidFields(pred, DocESGFields) IN
  IF invalid = <<>>
    THEN [valid |-> TRUE, error |-> <<>>]
    ELSE [valid |-> FALSE,
          error |-> <<ToString(Len(invalid)), " validation errors for DocESG">> \o invalid]

(* ------------------------ check_policy_synonyms ----------------------- *)

\* bool(x): None, False, zero, and the empty string, list and dict are falsy.
Truthy(x) ==
  CASE x.t = "null" -> FALSE
    [] x.t = "bool" -> x.v
    [] x.t \in {"int", "float"} -> x.v # 0
    [] OTHER -> x.v # <<>>

\* The keys of synonym_mappings, in order.
StandardFields == <<"whistleblowing", "anti_corruption", "human_rights", "dei_policy">>

\* Mutant of SynonymBonus: `if policies.get(standard_field)` in place of
\* `is True`, which counts every truthy flag value.
RECURSIVE SynonymBonus_Truthy(_, _, _)
SynonymBonus_Truthy(policies, fields, synonym_bonus) ==
  IF fields = <<>> THEN synonym_bonus
  ELSE SynonymBonus_Truthy(policies, Tail(fields),
                           IF Truthy(Field(policies, Head(fields)))
                             THEN synonym_bonus + BonusHalves
                             ELSE synonym_bonus)

\* The loop over synonym_mappings: the bonus, in halves of a point.
RECURSIVE SynonymBonus(_, _, _)
SynonymBonus(policies, fields, synonym_bonus) ==
  IF fields = <<>> THEN synonym_bonus
  ELSE SynonymBonus(policies, Tail(fields),
                    IF Field(policies, Head(fields)) = PyBool(TRUE)
                      THEN synonym_bonus + BonusHalves
                      ELSE synonym_bonus)

\* check_policy_synonyms(predicted): the points it returns, or the
\* AttributeError that policies.get raises when policies is no dict.
check_policy_synonyms(pred) ==
  LET policies == IF DictHas(pred.v, <<"policies">>) THEN Field(pred, "policies")
                  ELSE PyDict(<<>>)
  IN IF ~Truthy(policies) THEN [raised |-> FALSE, value |-> Rat(0, 1)]
     ELSE IF ~IsDict(policies) THEN [raised |-> TRUE, value |-> Rat(0, 1)]
     ELSE [raised |-> FALSE,
           value |-> RatMin(Rat(SynonymBonus(policies, StandardFields, 0), 2),
                            Rat(RobustnessCap, 1))]

(* ---------------------- calculate_coverage_score ---------------------- *)

\* {k: v for k, v in flat.items() if v is not None}
NonNull(flat) == SelectSeq(flat, LAMBDA item : ~IsNone(item[2]))

\* Mutant of calculate_coverage_score: the ratio is taken over every
\* reference path, len(expected_flat), the null ones included.
calculate_coverage_score_AllFields(pred, exp) ==
  LET predicted_flat == flatten_dict(pred, <<>>)
      expected_flat == flatten_dict(exp, <<>>)
      expected_non_null == NonNull(expected_flat)
      covered_fields ==
        Cardinality({i \in 1..Len(expected_non_null) :
                       ~IsNone(DictGet(predicted_flat, expected_non_null[i][1]))})
  IN IF expected_non_null = <<>> THEN Rat(CoverageWeight, 1)
     ELSE Rat(covered_fields * CoverageWeight, Len(expected_flat))

\* Mutant of calculate_coverage_score: `k in predicted_flat` in place of
\* `predicted_flat.get(k) is not None`, which counts a null as covered.
calculate_coverage_score_KeyPresent(pred, exp) ==
  LET predicted_flat == flatten_dict(pred, <<>>)
      expected_flat == flatten_dict(exp, <<>>)
      expected_non_null == NonNull(expected_flat)
      covered_fields ==
        Cardinality({i \in 1..Len(expected_non_null) :
                       DictHas(predicted_flat, expected_non_null[i][1])})
  IN IF expected_non_null = <<>> THEN Rat(CoverageWeight, 1)
     ELSE Rat(covered_fields * CoverageWeight, Len(expected_non_null))

\* calculate_coverage_score(predicted, expected)
calculate_coverage_score(pred, exp) ==
  LET predicted_flat == flatten_dict(pred, <<>>)
      expected_flat == flatten_dict(exp, <<>>)
      expected_non_null == NonNull(expected_flat)
      covered_fields ==
        Cardinality({i \in 1..Len(expected_non_null) :
                       ~IsNone(DictGet(predicted_flat, expected_non_null[i][1]))})
  IN IF expected_non_null = <<>> THEN Rat(CoverageWeight, 1)
     ELSE Rat(covered_fields * CoverageWeight, Len(expected_non_null))

(* -------------------------------- compare ----------------------------- *)

\* The report compare starts from.
InitialResult ==
  [total_score |-> Rat(0, 1),
   breakdown |-> [parsing_correctness |-> Rat(0, 1), coverage |-> Rat(0, 1),
                  robustness |-> Rat(0, 1), output_hygiene |-> Rat(0, 1)],
   details |-> [correct_fields |-> <<>>, incorrect_fields |-> <<>>, missing_fields |-> <<>>,
                schema_valid |-> TRUE, schema_errors |-> <<>>]]

\* An entry of details.correct_fields.
CorrectEntry(field, predicted_value, verdict) ==
  [field |-> field, value |-> predicted_value, similarity |-> verdict.similarity]

\* An entry of details.incorrect_fields.
IncorrectEntry(field, expected_value, predicted_value, verdict) ==
  [field |-> field, expected |-> expected_value, predicted |-> predicted_value,
   error |-> verdict.error, similarity |-> verdict.similarity]

\* The loop of compare over expected_flat.items(): details holds the lists
\* built so far, and correct is the count of correct fields.
RECURSIVE CompareFields(_, _, _)
CompareFields(expected_items, predicted_flat, acc) ==
  IF expected_items = <<>> THEN acc
  ELSE LET field == expected_items[1][1]
           expected_value == expected_items[1][2]
           predicted_value == DictGet(predicted_flat, field)
           verdict == compare_values(predicted_value, expected_value, field)
       IN CompareFields(Tail(expected_items), predicted_flat,
            IF IsNone(expected_value) THEN acc
            ELSE IF verdict.is_correct
              THEN [acc EXCEPT !.correct_fields = @ + 1,
                               !.correct = Append(@, CorrectEntry(field, predicted_value, verdict))]
              ELSE [acc EXCEPT !.incorrect =
                      Append(@, IncorrectEntry(field, expected_value, predicted_value, verdict))])

\* Mutant of ParsingScore: a reference with nothing to check gets full credit.
ParsingScore_VacuousFull(correct_fields, total_expected_fields, initial) ==
  IF total_expected_fields > 0
    THEN Rat(correct_fields * ParsingWeight, total_expected_fields)
    ELSE Rat(ParsingWeight, 1)

\* compare, lines 216-218: (correct_fields / total_expected_fields) * 60 when
\* there are expected fields; otherwise the score keeps its initial value.
ParsingScore(correct_fields, total_expected_fields, initial) ==
  IF total_expected_fields > 0
    THEN Rat(correct_fields * ParsingWeight, total_expected_fields)
    ELSE initial

(* ---------------------- specification: compare -------------------------- *)

\* No value yet (a call that has not returned, a report not yet built).
NoValue == [t |-> "none", v |-> 0]

\* A record has at most MaxFields top-level fields.
MaxFields == 2

\* The dicts whose keys are a subsequence of names, of at most n fields, the
\* field called name holding a value of ValuesOf[name].
RECURSIVE DictItems(_, _, _)
DictItems(names, n, ValuesOf) ==
  IF names = <<>> \/ n = 0 THEN {<<>>}
  ELSE DictItems(Tail(names), n, ValuesOf)
         \cup {<<<<Head(names), v>>>> \o rest :
                 v \in ValuesOf[Head(names)], rest \in DictItems(Tail(names), n - 1, ValuesOf)}

\* {name: value} and {name1: value1, name2: value2, ...}
Obj(fields) == PyDict([i \in 1..Len(fields) |-> <<<<fields[i][1]>>, fields[i][2]>>])

\* A board member.
Member(name, role) == Obj(<<<<"name", PyStr(name)>>, <<"role", PyStr(role)>>>>)

\* The top-level fields of the records compared.
RecordNames == <<<<"year">>, <<"ghg">>, <<"policies">>, <<"board">>>>

\* What the extraction may have put in each field: right and wrong values,
\* nulls, values of the wrong type.
CandidateValuesOf ==
  (<<"year">> :> {Null, PyInt(2023), PyInt(2124), PyInt(2125), PyStr(<<"a">>)})
  @@ (<<"ghg">> :> {Obj(<<<<"scope1_tco2e", PyInt(1000)>>>>), Obj(<<<<"scope1_tco2e", PyInt(1200)>>>>),
                    Obj(<<<<"scope1_tco2e", Null>>>>), Obj(<<>>), PyStr(<<"a">>)})
  @@ (<<"policies">> :> {Null, Obj(<<>>), PyStr(<<"a">>),
                         Obj(<<<<"whistleblowing", PyBool(TRUE)>>>>),
                         Obj(<<<<"whistleblowing", PyBool(FALSE)>>>>),
                         Obj(<<<<"whistleblowing", PyBool(TRUE)>>, <<"anti_corruption", PyBool(TRUE)>>>>),
                         Obj(<<<<"whistleblowing", PyBool(TRUE)>>, <<"anti_corruption", PyBool(TRUE)>>,
                               <<"human_rights", PyBool(TRUE)>>, <<"dei_policy", PyBool(TRUE)>>>>)})
  @@ (<<"board">> :> {Obj(<<<<"members", PyList(<<>>)>>>>),
                      Obj(<<<<"members", PyList(<<Member(<<"a">>, <<"a">>)>>)>>>>),
                      Obj(<<<<"members", PyList(<<Member(<<"A">>, <<"b">>)>>)>>>>)})

\* What the reference holds in each field.
ReferenceValuesOf ==
  (<<"year">> :> {Null, PyInt(2023)})
  @@ (<<"ghg">> :> {Obj(<<<<"scope1_tco2e", PyInt(1000)>>>>), Obj(<<<<"scope1_tco2e", Null>>>>)})
  @@ (<<"policies">> :> {Obj(<<<<"whistleblowing", PyBool(TRUE)>>>>)})
  @@ (<<"board">> :> {Obj(<<<<"members", PyList(<<Member(<<"a">>, <<"a">>)>>)>>>>)})

Candidates == {PyDict(items) : items \in DictItems(RecordNames, MaxFields, CandidateValuesOf)}

References == {PyDict(items) : items \in DictItems(RecordNames, MaxFields, ReferenceValuesOf)}

Init ==
  /\ pc = "compare"
  /\ predicted \in Candidates
  /\ expected \in References
  /\ field_name = <<>>
  /\ ret = NoValue
  /\ result = NoValue

\* compare, lines 161-176: the report is created.
Begin ==
  /\ pc = "compare"
  /\ result' = InitialResult
  /\ pc' = "schema"
  /\ UNCHANGED <<predicted, expected, field_name, ret>>

\* compare, step 1: schema validation.
SchemaValidation ==
  /\ pc = "schema"
  /\ LET validated == validate_schema(predicted) IN
     result' = [result EXCEPT !.details.schema_valid = validated.valid,
                              !.details.schema_errors = validated.error,
                              !.breakdown.output_hygiene =
                                 IF validated.valid THEN Rat(HygieneWeight, 1) ELSE Rat(0, 1)]
  /\ pc' = "parsing"
  /\ UNCHANGED <<predicted, expected, field_name, ret>>

\* compare, step 2: the field-by-field comparison.
ParsingCorrectness ==
  /\ pc = "parsing"
  /\ LET predicted_flat == flatten_dict(predicted, <<>>)
         expected_flat == flatten_dict(expected, <<>>)
         total_expected_fields == Len(NonNull(expected_flat))
         done == CompareFields(expected_flat, predicted_flat,
                               [correct_fields |-> 0, correct |-> <<>>, incorrect |-> <<>>])
     IN result' = [result EXCEPT
                     !.details.correct_fields = done.correct,
                     !.details.incorrect_fields = done.incorrect,
                     !.breakdown.parsing_correctness =
                        ParsingScore(done.correct_fields, total_expected_fields, @)]
  /\ pc' = "coverage"
  /\ UNCHANGED <<predicted, expected, field_name, ret>>

\* compare, step 3: the coverage score.
Coverage ==
  /\ pc = "coverage"
  /\ result' = [result EXCEPT !.breakdown.coverage = calculate_coverage_score(predicted, expected)]
  /\ pc' = "robustness"
  /\ UNCHANGED <<predicted, expected, field_name, ret>>

\* compare, step 4: the robustness score; an AttributeError raised by
\* check_policy_synonyms leaves compare and no report is returned.
Robustness ==
  /\ pc = "robustness"
  /\ LET robustness_score == check_policy_synonyms(predicted) IN
     \/ /\ ~robustness_score.raised
        /\ result' = [result EXCEPT !.breakdown.robustness = robustness_score.value]
        /\ pc' = "total"
        /\ ret' = ret
     \/ /\ robustness_score.raised
        /\ ret' = [t |-> "AttributeError", v |-> 0]
        /\ pc' = "raised"
        /\ result' = result
  /\ UNCHANGED <<predicted, expected, field_name>>

\* Mutant of SumBreakdown: the hygiene score is left out of the total.
SumBreakdown_NoHygiene(breakdown) ==
  RatAdd(RatAdd(breakdown.parsing_correctness, breakdown.coverage), breakdown.robustness)

\* sum(result["breakdown"].values())
SumBreakdown(breakdown) ==
  RatAdd(RatAdd(breakdown.parsing_correctness, breakdown.coverage),
         RatAdd(breakdown.robustness, breakdown.output_hygiene))

\* compare, lines 228-231: the total, and the report is returned.
Total ==
  /\ pc = "total"
  /\ result' = [result EXCEPT !.total_score = SumBreakdown(result.breakdown)]
  /\ ret' = result'
  /\ pc' = "returned"
  /\ UNCHANGED <<predicted, expected, field_name>>

Next ==
  \/ Begin
  \/ SchemaValidation
  \/ ParsingCorrectness
  \/ Coverage
  \/ Robustness
  \/ Total

Spec == Init /\ [][Next]_vars

\* The paths of the flattened reference whose value is not null.
ReferencePaths ==
  LET expected_flat == flatten_dict(expected, <<>>) IN
  {expected_flat[i][1] : i \in {j \in 1..Len(expected_flat) : expected_flat[j][2] # Null}}

\* The paths of the flattened reference whose value is null.
NullReferencePaths ==
  LET expected_flat == flatten_dict(expected, <<>>) IN
  {expected_flat[i][1] : i \in {j \in 1..Len(expected_flat) : expected_flat[j][2] = Null}}

\* The candidate's value at a path, null when the path is absent.
CandidateAt(path) == DictGet(flatten_dict(predicted, <<>>), path)

\* The reference's value at a path.
ReferenceAt(path) == DictGet(flatten_dict(expected, <<>>), path)

\* The reference paths the candidate populates, and those it gets right.
CoveredPaths == {path \in ReferencePaths : CandidateAt(path) # Null}

CorrectPaths ==
  {path \in ReferencePaths :
     compare_values(CandidateAt(path), ReferenceAt(path), path).is_correct}

\* The integer k as a score.
Points(k) == Rat(k, 1)

\* The steps of compare after which each sub-score has been computed.
AfterSchema == pc \in {"parsing", "coverage", "robustness", "total", "returned", "raised"}

AfterParsing == pc \in {"coverage", "robustness", "total", "returned", "raised"}

AfterCoverage == pc \in {"robustness", "total", "returned", "raised"}

\* C1: in the report compare returns, parsing_correctness is in [0, 60],
\* coverage in [0, 20], robustness in [0, 10], output_hygiene is 0 or 10, and
\* total_score is the sum of the four, hence in [0, 100].
C1_ScoresWithinCaps ==
  pc = "returned" =>
    LET b == ret.breakdown IN
    /\ RatLeq(Points(0), b.parsing_correctness) /\ RatLeq(b.parsing_correctness, Points(60))
    /\ RatLeq(Points(0), b.coverage) /\ RatLeq(b.coverage, Points(20))
    /\ RatLeq(Points(0), b.robustness) /\ RatLeq(b.robustness, Points(10))
    /\ RatEq(b.output_hygiene, Points(0)) \/ RatEq(b.output_hygiene, Points(10))
    /\ RatEq(ret.total_score,
             RatAdd(b.parsing_correctness,
                    RatAdd(b.coverage, RatAdd(b.robustness, b.output_hygiene))))
    /\ RatLeq(Points(0), ret.total_score) /\ RatLeq(ret.total_score, Points(100))

\* C1 witness: reference {"year": 2023} against candidate {"year": 2023}
\* scores 60 + 20 + 0 + 10 = 90.
C1_Witness ==
  /\ pc = "returned"
  /\ expected = Obj(<<<<"year", PyInt(2023)>>>>)
  /\ predicted = Obj(<<<<"year", PyInt(2023)>>>>)
  /\ RatEq(ret.total_score, Points(90))

\* C2: the parsing-correctness score is 60 times the number of non-null
\* reference paths judged correct over the number of non-null reference
\* paths, and 0 when the reference has no non-null path.
C2_ParsingScore ==
  AfterParsing =>
    /\ ReferencePaths # {} =>
         RatEq(result.breakdown.parsing_correctness,
               Rat(60 * Cardinality(CorrectPaths), Cardinality(ReferencePaths)))
    /\ ReferencePaths = {} => RatEq(result.breakdown.parsing_correctness, Points(0))

\* C2 witness: a reference whose only field is null has been compared:
\* parsing correctness is 0 and coverage is 20.
C2_Witness ==
  /\ pc = "returned"
  /\ expected = Obj(<<<<"year", Null>>>>)
  /\ predicted = Obj(<<<<"year", PyInt(2023)>>>>)
  /\ RatEq(ret.breakdown.parsing_correctness, Points(0))
  /\ RatEq(ret.breakdown.coverage, Points(20))

\* C3: the coverage score is 20 when the reference has no non-null path, and
\* otherwise 20 times the number of non-null reference paths that are non-null
\* in the candidate over the number of non-null reference paths; a candidate
\* that is non-null on every reference path gets 20 even when every value is
\* wrong.
C3_CoverageScore ==
  AfterCoverage =>
    /\ ReferencePaths = {} => RatEq(result.breakdown.coverage, Points(20))
    /\ ReferencePaths # {} =>
         RatEq(result.breakdown.coverage,
               Rat(20 * Cardinality(CoveredPaths), Cardinality(ReferencePaths)))
    /\ (CoveredPaths = ReferencePaths /\ CorrectPaths = {}) =>
         RatEq(result.breakdown.coverage, Points(20))

\* C3 witness: reference scope1_tco2e 1000 against candidate 1200: the value
\* is wrong (parsing correctness 0) and the coverage is 20.
C3_Witness ==
  /\ pc = "returned"
  /\ expected = Obj(<<<<"ghg", Obj(<<<<"scope1_tco2e", PyInt(1000)>>>>)>>>>)
  /\ predicted = Obj(<<<<"ghg", Obj(<<<<"scope1_tco2e", PyInt(1200)>>>>)>>>>)
  /\ RatEq(ret.breakdown.parsing_correctness, Points(0))
  /\ RatEq(ret.breakdown.coverage, Points(20))

\* The paths an entry list of the report names.
FieldsOf(entries) == {entries[i].field : i \in 1..Len(entries)}

\* The number of entries of a list that name the path.
Occurrences(entries, path) == Cardinality({i \in 1..Len(entries) : entries[i].field = path})

\* C9: in the report, every non-null reference path is in exactly one of
\* correct_fields, incorrect_fields and missing_fields, null reference paths
\* are in none, and a reference path the candidate lacks (absent or null) is
\* in missing_fields, with a non-empty error, and not in correct_fields.
C9_MissingIsReportedMissing ==
  pc = "returned" =>
    LET d == ret.details IN
    /\ \A path \in ReferencePaths :
         Occurrences(d.correct_fields, path) + Occurrences(d.incorrect_fields, path)
           + Occurrences(d.missing_fields, path) = 1
    /\ \A path \in NullReferencePaths \ ReferencePaths :
         path \notin FieldsOf(d.correct_fields) \cup FieldsOf(d.incorrect_fields)
                       \cup FieldsOf(d.missing_fields)
    /\ \A path \in ReferencePaths \ CoveredPaths :
         /\ path \in FieldsOf(d.missing_fields)
         /\ path \notin FieldsOf(d.correct_fields)

\* C10: a schema violation never aborts the comparison: once validation has
\* failed, the report records it (schema_valid false, a non-empty error text,
\* output_hygiene 0), compare does not raise, and the report it returns holds
\* the parsing-correctness, coverage and robustness scores the flattened
\* values determine.
C10_SchemaViolationIsData ==
  (AfterSchema /\ ~result.details.schema_valid) =>
    /\ result.details.schema_errors # <<>>
    /\ RatEq(result.breakdown.output_hygiene, Points(0))
    /\ pc # "raised"
    /\ pc = "returned" =>
         /\ ReferencePaths # {} =>
              /\ RatEq(ret.breakdown.parsing_correctness,
                       Rat(60 * Cardinality(CorrectPaths), Cardinality(ReferencePaths)))
              /\ RatEq(ret.breakdown.coverage,
                       Rat(20 * Cardinality(CoveredPaths), Cardinality(ReferencePaths)))
         /\ RatEq(ret.breakdown.robustness, check_policy_synonyms(predicted).value)

\* C11: in the report compare returns, every path listed as correct is a
\* non-null reference path whose candidate value is non-null, so the number
\* of correct paths is at most the number of covered paths, and, when the
\* reference has a non-null path, parsing_correctness / 60 is at most
\* coverage / 20.
C11_CorrectImpliesCovered ==
  pc = "returned" =>
    LET correct == ret.details.correct_fields
        b == ret.breakdown
    IN /\ FieldsOf(correct) \subseteq CoveredPaths
       /\ \A i \in 1..Len(correct) : correct[i].value # Null
       /\ Len(correct) <= Cardinality(CoveredPaths)
       /\ ReferencePaths # {} =>
            b.parsing_correctness.n * b.coverage.d * 20
              <= b.coverage.n * b.parsing_correctness.d * 60

\* C11 witness: the year is right and scope1_tco2e is present but wrong: one
\* of two paths is correct (30 of 60) and both are covered (20 of 20).
C11_Witness ==
  /\ pc = "returned"
  /\ expected = Obj(<<<<"year", PyInt(2023)>>,
                      <<"ghg", Obj(<<<<"scope1_tco2e", PyInt(1000)>>>>)>>>>)
  /\ predicted = Obj(<<<<"year", PyInt(2023)>>,
                       <<"ghg", Obj(<<<<"scope1_tco2e", PyInt(1200)>>>>)>>>>)
  /\ Len(ret.details.correct_fields) = 1
  /\ RatEq(ret.breakdown.parsing_correctness, Points(30))
  /\ RatEq(ret.breakdown.coverage, Points(20))

(* ----------------- specification: check_policy_synonyms ----------------- *)

\* A policies section has at most MaxFlags flags.
MaxFlags == 4

\* The flags of a policies section: the four canonical flags and one that
\* is not canonical.
PolicyFlagNames ==
  <<<<"whistleblowing">>, <<"anti_corruption">>, <<"human_rights">>, <<"dei_policy">>,
    <<"climate_policy">>>>

\* The values of a flag: true, false, null, a truthy string, a truthy number.
PolicyFlagValues == {PyBool(TRUE), PyBool(FALSE), Null, PyStr(<<"a">>), PyInt(1)}

\* The policies sections: objects of flags, and what is no object.
PolicySections ==
  {PyDict(items) :
     items \in DictItems(PolicyFlagNames, MaxFlags,
                         [name \in {PolicyFlagNames[i] : i \in 1..Len(PolicyFlagNames)} |->
                            PolicyFlagValues])}
    \cup {Null, PyStr(<<>>), PyStr(<<"a">>), PyInt(0), PyList(<<>>), PyList(<<PyInt(1)>>)}

InitPolicy ==
  /\ pc = "check_policy_synonyms"
  /\ predicted \in {Obj(<<>>)} \cup {Obj(<<<<"policies", section>>>>) : section \in PolicySections}
  /\ expected = NoValue
  /\ field_name = <<>>
  /\ ret = NoValue
  /\ result = NoValue

\* One call of check_policy_synonyms(predicted).
CheckPolicySynonyms ==
  /\ pc = "check_policy_synonyms"
  /\ LET robustness_score == check_policy_synonyms(predicted) IN
     \/ /\ ~robustness_score.raised
        /\ ret' = robustness_score.value
        /\ pc' = "returned"
     \/ /\ robustness_score.raised
        /\ ret' = [t |-> "AttributeError", v |-> 0]
        /\ pc' = "raised"
  /\ UNCHANGED <<predicted, expected, field_name, result>>

NextPolicy == CheckPolicySynonyms

SpecPolicy == InitPolicy /\ [][NextPolicy]_vars

\* The policies section of the candidate, null when there is none.
PoliciesOf(x) == DictGet(x.v, <<"policies">>)

\* The canonical flags whose value in the policies section is exactly true.
TrueCanonicalFlags(x) ==
  {name \in {"whistleblowing", "anti_corruption", "human_rights", "dei_policy"} :
     \E i \in 1..Len(PoliciesOf(x).v) : PoliciesOf(x).v[i] = <<<<name>>, PyBool(TRUE)>>}

\* C7: check_policy_synonyms returns 2.5 points per canonical flag that is
\* exactly true, capped at 10: one of 0, 2.5, 5, 7.5, 10; 10 exactly when four
\* or more canonical flags are true; 0 when the policies section is absent,
\* null or empty; a flag that is false, null, a string or a number adds nothing.
C7_SynonymBonus ==
  pc = "returned" =>
    /\ IsDict(PoliciesOf(predicted)) =>
         LET n == Cardinality(TrueCanonicalFlags(predicted)) IN
         /\ RatEq(ret, IF n >= 4 THEN Points(10) ELSE Rat(5 * n, 2))
         /\ RatEq(ret, Points(10)) <=> n >= 4
    /\ \E k \in 0..4 : RatEq(ret, Rat(5 * k, 2))
    /\ PoliciesOf(predicted) \in {Null, PyDict(<<>>)} => RatEq(ret, Points(0))

\* C7 witness: the four canonical flags are true and the call returned 10.
C7_Witness ==
  /\ pc = "returned"
  /\ IsDict(PoliciesOf(predicted))
  /\ Cardinality(TrueCanonicalFlags(predicted)) = 4
  /\ RatEq(ret, Points(10))

(* ------------------ specification: compare_values -------------------- *)

\* The characters of string values.
Chars == {"a", "A"}

RECURSIVE StringsUpTo(_)
StringsUpTo(n) ==
  IF n = 0 THEN {<<>>}
  ELSE LET shorter == StringsUpTo(n - 1) IN
       shorter \cup {Append(s, c) : s \in {u \in shorter : Len(u) = n - 1}, c \in Chars}

\* Integers around the worked example of the specification (1000 against 1200)
\* and its 5% boundary (1050, 1051).
ExampleInts == {1000, 1050, 1051, 1200}

\* Integral parts of the float values.
FloatBases == {-1, 0, 1, MaxInt - 1}

\* The leaf values compare_values is applied to: every kind of value
\* flatten_dict can store (a list is stored when it is an item of a list).
LeafValues ==
  {Null, PyBool(TRUE), PyBool(FALSE)}
    \cup {PyInt(n) : n \in (-MaxInt..MaxInt) \cup ExampleInts}
    \cup {PyFloat(b * Unit + f) : b \in FloatBases, f \in -MaxFrac..MaxFrac}
    \cup {PyStr(s) : s \in StringsUpTo(MaxStrLen)}
    \cup {PyList(<<>>), PyList(<<PyInt(1)>>), PyList(<<PyBool(TRUE)>>)}

\* The field paths compare_values is called with.
FieldPaths == {<<"year">>, <<"ghg", ".", "scope1_tco2e">>}

InitValues ==
  /\ pc = "compare_values"
  /\ predicted \in LeafValues
  /\ expected \in LeafValues
  /\ field_name \in FieldPaths
  /\ ret = NoValue
  /\ result = NoValue

\* One call of compare_values(predicted, expected, field_name).
CompareValues ==
  /\ pc = "compare_values"
  /\ ret' = compare_values(predicted, expected, field_name)
  /\ pc' = "returned"
  /\ UNCHANGED <<predicted, expected, field_name, result>>

NextValues == CompareValues

SpecValues == InitValues /\ [][NextValues]_vars

\* A number that is not a bool.
IsNumber(x) == x.t \in {"int", "float"}

C5_NullRulesWin ==
  pc = "returned" =>
    /\ expected = Null =>
         (ret.is_correct /\ ret.similarity = Rat(1, 1) /\ ret.error = <<>>)
    /\ (expected # Null /\ predicted = Null) =>
         /\ ~ret.is_correct
         /\ ret.similarity = Rat(0, 1)
         /\ ret.error = <<"Missing required field: ">> \o field_name
         /\ Len(ret.error) > Len(field_name)

\* C5 witness: an expected False (a falsy value) against a predicted null is
\* reported missing.
C5_Witness ==
  /\ pc = "returned"
  /\ expected = PyBool(FALSE)
  /\ predicted = Null
  /\ ~ret.is_correct

\* C6: the tolerance rule is applied only when both values are numbers that
\* are not booleans: two booleans are compared exactly, and a boolean against
\* a number is decided by exact equality, never by the tolerance.
C6_BoolNeverNumeric ==
  pc = "returned" =>
    /\ (IsBool(expected) /\ IsBool(predicted)) =>
         (ret.is_correct <=> expected.v = predicted.v)
    /\ ((IsBool(expected) /\ IsNumber(predicted)) \/ (IsNumber(expected) /\ IsBool(predicted))) =>
         (ret.is_correct <=> NumOf(expected) = NumOf(predicted))

(* -------------------- specification: flatten_dict --------------------- *)

\* An array has at most MaxItems items.
MaxItems == 2

\* Field names of the records flattened: plain names, the empty name, a name
\* holding the path separator and a name holding an index.
FlattenNames == <<<<"a">>, <<"b">>, <<>>, <<"a", ".", "b">>, <<"a", "[", "0", "]">>>>

\* The sequences of at most n items of Values.
RECURSIVE ListItems(_, _)
ListItems(n, Values) ==
  IF n = 0 THEN {<<>>}
  ELSE LET shorter == ListItems(n - 1, Values) IN
       shorter \cup {Append(l, v) : l \in {u \in shorter : Len(u) = n - 1}, v \in Values}

FlattenScalars == {Null, PyInt(1)}

\* Objects nested in a record or an array.
FlattenInnerDicts ==
  {PyDict(<<>>), PyDict(<<<<<<"b">>, PyInt(1)>>>>), PyDict(<<<<<<"a">>, PyInt(1)>>>>)}

\* Items of an array: scalars, objects, arrays.
FlattenArrayItems ==
  {Null, PyInt(1), PyDict(<<>>), PyDict(<<<<<<"b">>, PyInt(1)>>>>),
   PyList(<<>>), PyList(<<PyInt(1)>>)}

\* The field a holds any value, arrays included; the other fields hold a
\* scalar or an object.
FlattenValuesOf(name) ==
  FlattenScalars \cup FlattenInnerDicts
    \cup (IF name = <<"a">>
            THEN {PyList(l) : l \in ListItems(MaxItems, FlattenArrayItems)}
            ELSE {})

FlattenRecords ==
  {PyDict(items) : items \in DictItems(FlattenNames, MaxFields,
                                  [name \in {FlattenNames[i] : i \in 1..Len(FlattenNames)} |->
                                     FlattenValuesOf(name)])}

InitFlatten ==
  /\ pc = "flatten_dict"
  /\ predicted \in FlattenRecords
  /\ expected = NoValue
  /\ field_name = <<>>
  /\ ret = NoValue
  /\ result = NoValue

\* One call of flatten_dict(predicted).
FlattenDict ==
  /\ pc = "flatten_dict"
  /\ ret' = flatten_dict(predicted, <<>>)
  /\ pc' = "returned"
  /\ UNCHANGED <<predicted, expected, field_name, result>>

NextFlatten == FlattenDict

SpecFlatten == InitFlatten /\ [][NextFlatten]_vars

\* One step of the way from the root of a record to a value: a field name or
\* an array index.
KeyStep(name) == [kind |-> "key", name |-> name, i |-> 0]

IndexStep(i) == [kind |-> "index", name |-> <<>>, i |-> i]

\* The scalar leaves of a value: each with the steps that lead to it.
RECURSIVE ScalarLeaves(_, _)
ScalarLeaves(x, steps) ==
  IF IsDict(x)
    THEN UNION {ScalarLeaves(x.v[i][2], Append(steps, KeyStep(x.v[i][1]))) : i \in 1..Len(x.v)}
  ELSE IF IsList(x)
    THEN UNION {ScalarLeaves(x.v[i], Append(steps, IndexStep(i - 1))) : i \in 1..Len(x.v)}
  ELSE {[steps |-> steps, value |-> x]}

\* The path of a leaf: field names joined by '.', array positions in brackets.
RECURSIVE PathOf(_)
PathOf(steps) ==
  IF steps = <<>> THEN <<>>
  ELSE LET front == PathOf(SubSeq(steps, 1, Len(steps) - 1))
           last == steps[Len(steps)]
       IN IF last.kind = "index" THEN front \o <<"[">> \o Digits(last.i) \o <<"]">>
          ELSE IF Len(steps) = 1 THEN last.name
          ELSE front \o <<".">> \o last.name

\* The flat mapping holds exactly one scalar entry per scalar leaf of R, at
\* the leaf's path, with the leaf's value.
FlattenIsExact(R, flat) ==
  LET leaves == ScalarLeaves(R, <<>>) IN
  /\ Len(flat) = Cardinality(leaves)
  /\ \A l1, l2 \in leaves : l1 # l2 => PathOf(l1.steps) # PathOf(l2.steps)
  /\ \A l \in leaves : DictHas(flat, PathOf(l.steps)) /\ DictGet(flat, PathOf(l.steps)) = l.value
  /\ \A i \in 1..Len(flat) : ~IsDict(flat[i][2]) /\ ~IsList(flat[i][2])

\* A field name that is not empty and holds neither '.' nor '['.
PlainName(name) == name # <<>> /\ \A i \in 1..Len(name) : name[i] \notin {".", "["}

\* A record whose field names are plain and whose arrays hold no array.
RECURSIVE PlainRecord(_)
PlainRecord(x) ==
  IF IsDict(x)
    THEN \A i \in 1..Len(x.v) : PlainName(x.v[i][1]) /\ PlainRecord(x.v[i][2])
  ELSE IF IsList(x)
    THEN \A i \in 1..Len(x.v) : ~IsList(x.v[i]) /\ PlainRecord(x.v[i])
  ELSE TRUE

\* C8 as stated: for every record, empty names, names holding '.' or '[i]'
\* and arrays inside arrays included, flatten_dict yields exactly one scalar
\* entry per scalar leaf, no two leaves share a path, and looking the paths
\* up gives the leaf values back.
C8_FlattenExactForAll ==
  pc = "returned" => FlattenIsExact(predicted, ret)

\* C8 amended: the same, for the records whose field names are not empty and
\* hold neither '.' nor '[', and whose arrays hold no array directly.
C8_FlattenExactForPlain ==
  (pc = "returned" /\ PlainRecord(predicted)) => FlattenIsExact(predicted, ret)

\* C8 witness: a plain record with an object in an array and an empty object
\* has been flattened to its two leaves.
C8_Witness ==
  /\ pc = "returned"
  /\ predicted = PyDict(<<<<<<"a">>, PyList(<<PyDict(<<<<<<"b">>, PyInt(1)>>>>), PyInt(1)>>)>>,
                          <<<<"b">>, PyDict(<<>>)>>>>)
  /\ ret = <<<<<<"a", "[", "0", "]", ".", "b">>, PyInt(1)>>, <<<<"a", "[", "1", "]">>, PyInt(1)>>>>

====

